---------------------------- MODULE Spec2Model ----------------------------
(***************************************************************************)
(* A model of PyComb.py (combinatorial functions on unbounded integers).   *)
(*                                                                         *)
(* The library is a flat set of functions.  A call is modelled as a small  *)
(* machine: `frame' holds the locals of the running function and where it  *)
(* is ("loop", "return" with its value, "raise" with the exception),       *)
(* `heap' holds the list objects (Python lists are references), and `rp'   *)
(* is the module global RP.  The loops of gcd, binomial and multinomial    *)
(* run one iteration per step; the same step operators, iterated, give the *)
(* value of a nested call.                                                 *)
(***************************************************************************)
EXTENDS Integers, Sequences, FiniteSets, TLC

VARIABLES
    fn,      \* the function the caller invoked ("none" when idle)
    args,    \* its arguments as the caller passed them (a tuple; the list for multinomial)
    rp,      \* the module global RP (line 47)
    heap,    \* list objects by reference: heap[r] is the list r refers to
    frame    \* the running call: locals and position

vars == <<fn, args, rp, heap, frame>>

----------------------------------------------------------------------------
(* Bounds of the model *)

MaxGcd == 12        \* gcd is called with 0..MaxGcd
MaxN == 9           \* binomial is called with -NegArgs..MaxN
NegArgs == 2        \* how far below zero integer arguments go
MaxLen == 4         \* longest list passed to multinomial
MaxPart == 3        \* largest part in such a list (the smallest is -1)
MaxSum == 7         \* largest sum of the non-negative parts of such a list
MaxStirling == 4    \* stirling1/stirling2 are called with -NegArgs..MaxStirling
MaxLah == 6         \* lah and prod are called with -NegArgs..MaxLah

(* The reduction period.  16 is the value the module sets; the other       *)
(* values are settings of the same global small enough for the reduction   *)
(* branch to run on the inputs above.                                      *)
RP == 16
RPValues == {1, 2, 3, RP}

Args(hi) == (0 - NegArgs)..hi

RECURSIVE SumNonNeg(_)
SumNonNeg(l) ==
    IF Len(l) = 0 THEN 0 ELSE (IF Head(l) > 0 THEN Head(l) ELSE 0) + SumNonNeg(Tail(l))

\* the lists passed to multinomial: parts from -1 to MaxPart
Lists ==
    {l \in UNION {[1..len -> (0 - 1)..MaxPart] : len \in 0..MaxLen} : SumNonNeg(l) <= MaxSum}

----------------------------------------------------------------------------
(* Outcomes of a call *)

Return(v) == [at |-> "return", ret |-> v]
Raise(e) == [at |-> "raise", exc |-> e]
Idle == [at |-> "idle"]

----------------------------------------------------------------------------
(* gcd, lines 51-60 *)

\* line 55: r = a % b (ZeroDivisionError when b == 0)
gcdEntry(a, b) ==
    IF b = 0 THEN Raise("ZeroDivisionError")
    ELSE [at |-> "loop", a |-> a, b |-> b, r |-> a % b]

\* lines 57-59: one iteration of `while r != 0'
gcdStep(f) == [f EXCEPT !.a = f.b, !.b = f.r, !.r = f.b % f.r]

\* fault variant of gcdReturn: returns a, the previous divisor
gcdReturnA(f) == Return(f.a)

\* line 60: return b
gcdReturn(f) == Return(f.b)

RECURSIVE gcdRun(_)
gcdRun(f) ==
    IF f.at # "loop" THEN f
    ELSE IF f.r # 0 THEN gcdRun(gcdStep(f))
    ELSE gcdReturn(f)

----------------------------------------------------------------------------
(* prod, lines 64-74 *)

RECURSIVE prodLoop(_, _, _)
prodLoop(i, n, result) ==
    IF i <= n THEN prodLoop(i + 1, n, result * i) ELSE result

prod(m, n) ==
    IF n < m THEN 0
    ELSE IF n = m THEN n
    ELSE prodLoop(m, n, 1)

----------------------------------------------------------------------------
(* binomial, lines 78-102 *)

\* lines 80-92: the early returns, the symmetry substitution, the accumulators
binomialEntry(n, k) ==
    IF (n < k) \/ (n < 0) \/ (k < 0) THEN Return(0)
    ELSE IF n = k THEN Return(1)
    ELSE IF k = 1 THEN Return(n)
    ELSE IF k = 0 THEN Return(1)
    ELSE LET k1 == IF n - k < k THEN n - k ELSE k
         IN  [at |-> "loop", n |-> n, k |-> k1, num |-> n - k1 + 1, den |-> 1, i |-> 2]

\* fault variant of binomialStep: the numerator factor is n - k - i
binomialStepWrongFactor(f, r) ==
    LET num1 == f.num * (f.n - f.k - f.i)
        den1 == f.den * f.i
    IN  IF f.i % r = 0
        THEN LET e == gcdRun(gcdEntry(num1, den1))
             IN  IF e.at = "raise" THEN e
                 ELSE [f EXCEPT !.num = num1 \div e.ret, !.den = den1 \div e.ret, !.i = f.i + 1]
        ELSE [f EXCEPT !.num = num1, !.den = den1, !.i = f.i + 1]

\* fault variant of binomialStep: the reduction divides num only
binomialStepDenNotReduced(f, r) ==
    LET num1 == f.num * (f.n - (f.k - f.i))
        den1 == f.den * f.i
    IN  IF f.i % r = 0
        THEN LET e == gcdRun(gcdEntry(num1, den1))
             IN  IF e.at = "raise" THEN e
                 ELSE [f EXCEPT !.num = num1 \div e.ret, !.den = den1, !.i = f.i + 1]
        ELSE [f EXCEPT !.num = num1, !.den = den1, !.i = f.i + 1]

\* lines 95-100: one iteration of `for i in range(2, k + 1)' with reduction period r
binomialStep(f, r) ==
    LET num1 == f.num * (f.n - (f.k - f.i))
        den1 == f.den * f.i
    IN  IF f.i % r = 0
        THEN LET e == gcdRun(gcdEntry(num1, den1))
             IN  IF e.at = "raise" THEN e
                 ELSE [f EXCEPT !.num = num1 \div e.ret, !.den = den1 \div e.ret, !.i = f.i + 1]
        ELSE [f EXCEPT !.num = num1, !.den = den1, !.i = f.i + 1]

\* line 102: return num // den
binomialReturn(f) ==
    IF f.den = 0 THEN Raise("ZeroDivisionError") ELSE Return(f.num \div f.den)

RECURSIVE binomialRun(_, _)
binomialRun(f, r) ==
    IF f.at # "loop" THEN f
    ELSE IF f.i <= f.k THEN binomialRun(binomialStep(f, r), r)
    ELSE binomialReturn(f)

\* the value of a nested call binomial(n, k)
binomial(n, k, r) == binomialRun(binomialEntry(n, k), r).ret

----------------------------------------------------------------------------
(* multinomial, lines 106-144 *)

\* the parameter nlist: the reference the caller passes, the first object of the heap
nlist == 1

\* fault variant of copy: n = nlist, the same list object
copyAlias(h, r) == [heap |-> h, ref |-> r]

\* list.copy() (line 110): a new list object with the same elements
copy(h, r) == [heap |-> Append(h, h[r]), ref |-> Len(h) + 1]

\* fault variant of remove: deletes every element equal to x
removeAll(l, x) == SelectSeq(l, LAMBDA y : y # x)

\* list.remove(x) (lines 123, 128, 138): delete the first element equal to x
remove(l, x) ==
    LET p == CHOOSE j \in 1..Len(l) : l[j] = x /\ \A q \in 1..(j - 1) : l[q] # x
    IN  SubSeq(l, 1, p - 1) \o SubSeq(l, p + 1, Len(l))

\* the builtin sum (line 118)
RECURSIVE sum(_)
sum(l) == IF Len(l) = 0 THEN 0 ELSE Head(l) + sum(Tail(l))

\* the builtin max (line 122), of a non-empty list
max(l) == CHOOSE x \in {l[j] : j \in 1..Len(l)} : \A j \in 1..Len(l) : l[j] <= x

\* lines 110-128: the copy, the early returns, the removal of the largest part,
\* the first depletion counter.  Gives the heap and the frame after line 128.
multinomialEntry(h, r) ==
    LET c == copy(h, r)
        n == c.ref
        l == c.heap[n]
    IN  IF Len(l) = 0 THEN [heap |-> c.heap, frame |-> Return(0)]
        ELSE IF \E j \in 1..Len(l) : l[j] < 0 THEN [heap |-> c.heap, frame |-> Return(0)]
        ELSE IF sum(l) = 0 THEN [heap |-> c.heap, frame |-> Return(0)]
        ELSE LET nmax == max(l)
                 h1 == [c.heap EXCEPT ![n] = remove(@, nmax)]
             IN  IF Len(h1[n]) = 0
                 THEN [heap |-> h1, frame |-> Raise("IndexError")]
                 ELSE [heap |-> [h1 EXCEPT ![n] = remove(@, @[1])],
                       frame |-> [at |-> "loop", n |-> n, nsum |-> sum(l), nmax |-> nmax,
                                  num |-> 1, den |-> 1, m |-> h1[n][1], i |-> nmax + 1]]

\* fault variant of multinomialStep: the reduction divides num only
multinomialStepDenNotReduced(s, r) ==
    LET f == s.frame
        h == s.heap
        num1 == f.num * f.i
        den1 == IF f.m > 1 THEN f.den * f.m ELSE f.den
        load == ~(f.m > 1) /\ Len(h[f.n]) > 0
        m1 == IF f.m > 1 THEN f.m - 1 ELSE IF load THEN h[f.n][1] ELSE f.m
        h1 == IF load THEN [h EXCEPT ![f.n] = remove(@, @[1])] ELSE h
    IN  IF f.i % r = 0
        THEN LET e == gcdRun(gcdEntry(num1, den1))
             IN  IF e.at = "raise" THEN [heap |-> h1, frame |-> e]
                 ELSE [heap |-> h1,
                       frame |-> [f EXCEPT !.num = num1 \div e.ret, !.den = den1,
                                           !.m = m1, !.i = f.i + 1]]
        ELSE [heap |-> h1, frame |-> [f EXCEPT !.num = num1, !.den = den1, !.m = m1, !.i = f.i + 1]]

\* lines 131-142: one iteration of `for i in range(nmax + 1, nsum + 1)'
multinomialStep(s, r) ==
    LET f == s.frame
        h == s.heap
        num1 == f.num * f.i
        den1 == IF f.m > 1 THEN f.den * f.m ELSE f.den
        load == ~(f.m > 1) /\ Len(h[f.n]) > 0
        m1 == IF f.m > 1 THEN f.m - 1 ELSE IF load THEN h[f.n][1] ELSE f.m
        h1 == IF load THEN [h EXCEPT ![f.n] = remove(@, @[1])] ELSE h
    IN  IF f.i % r = 0
        THEN LET e == gcdRun(gcdEntry(num1, den1))
             IN  IF e.at = "raise" THEN [heap |-> h1, frame |-> e]
                 ELSE [heap |-> h1,
                       frame |-> [f EXCEPT !.num = num1 \div e.ret, !.den = den1 \div e.ret,
                                           !.m = m1, !.i = f.i + 1]]
        ELSE [heap |-> h1, frame |-> [f EXCEPT !.num = num1, !.den = den1, !.m = m1, !.i = f.i + 1]]

\* line 144: return num // den
multinomialReturn(s) ==
    [heap |-> s.heap,
     frame |-> IF s.frame.den = 0 THEN Raise("ZeroDivisionError")
               ELSE Return(s.frame.num \div s.frame.den)]

RECURSIVE multinomialRun(_, _)
multinomialRun(s, r) ==
    IF s.frame.at # "loop" THEN s
    ELSE IF s.frame.i <= s.frame.nsum THEN multinomialRun(multinomialStep(s, r), r)
    ELSE multinomialReturn(s)

----------------------------------------------------------------------------
(* stirling2, lines 156-169 *)

\* the operator ** on non-negative exponents (0 ** 0 is 1)
RECURSIVE pow(_, _)
pow(b, e) == IF e = 0 THEN 1 ELSE b * pow(b, e - 1)

\* math.factorial
RECURSIVE factorial(_)
factorial(m) == IF m = 0 THEN 1 ELSE m * factorial(m - 1)

\* lines 162-167
RECURSIVE stirling2Loop(_, _, _, _, _)
stirling2Loop(n, m, i, result, r) ==
    IF i <= m
    THEN LET sign == IF (m - i) % 2 = 0 THEN 1 ELSE 0 - 1
         IN  stirling2Loop(n, m, i + 1, result + (sign * binomial(m, i, r) * pow(i, n)), r)
    ELSE result

stirling2(n, m, r) ==
    IF (n < m) \/ (n < 0) \/ (m < 0) THEN 0
    ELSE stirling2Loop(n, m, 0, 0, r) \div factorial(m)

----------------------------------------------------------------------------
(* stirling1, lines 173-186 *)

\* lines 180-184
RECURSIVE stirling1Loop(_, _, _, _, _, _)
stirling1Loop(n, m, k, result, sign, r) ==
    IF k <= n - m
    THEN LET product == (binomial(n - 1 + k, n - m + k, r) * binomial(2 * n - m, n - m - k, r))
                            * stirling2(n - m + k, k, r)
         IN  stirling1Loop(n, m, k + 1, result + (sign * product), 0 - sign, r)
    ELSE result

stirling1(n, m, r) ==
    IF (n < m) \/ (n < 0) \/ (m < 0) THEN 0
    ELSE stirling1Loop(n, m, 0, 0, 1, r)

----------------------------------------------------------------------------
(* lah, lines 203-212 *)

\* fault variant of lahLoop: the range starts at k
lahLoopFromK(k, n) == prodLoop(k, n, 1)

\* lines 208-210: result = 1; for i in range(k + 1, n + 1): result *= i
lahLoop(k, n) == prodLoop(k + 1, n, 1)

lah(n, k, r) ==
    IF (n < k) \/ (n < 1) \/ (k < 1) THEN 0
    ELSE lahLoop(k, n) * binomial(n - 1, k - 1, r)

----------------------------------------------------------------------------
(* State machine: a caller invoking the functions *)

Init ==
    /\ fn = "none"
    /\ args = <<>>
    /\ rp \in RPValues
    /\ heap = <<>>
    /\ frame = Idle

CallGcd(a, b) ==
    /\ frame.at = "idle"
    /\ fn' = "gcd"
    /\ args' = <<a, b>>
    /\ frame' = gcdEntry(a, b)
    /\ UNCHANGED <<rp, heap>>

GcdIter ==
    /\ fn = "gcd"
    /\ frame.at = "loop"
    /\ frame.r # 0
    /\ frame' = gcdStep(frame)
    /\ UNCHANGED <<fn, args, rp, heap>>

GcdExit ==
    /\ fn = "gcd"
    /\ frame.at = "loop"
    /\ frame.r = 0
    /\ frame' = gcdReturn(frame)
    /\ UNCHANGED <<fn, args, rp, heap>>

CallBinomial(n, k) ==
    /\ frame.at = "idle"
    /\ fn' = "binomial"
    /\ args' = <<n, k>>
    /\ frame' = binomialEntry(n, k)
    /\ UNCHANGED <<rp, heap>>

BinomialIter ==
    /\ fn = "binomial"
    /\ frame.at = "loop"
    /\ frame.i <= frame.k
    /\ frame' = binomialStep(frame, rp)
    /\ UNCHANGED <<fn, args, rp, heap>>

BinomialExit ==
    /\ fn = "binomial"
    /\ frame.at = "loop"
    /\ frame.i > frame.k
    /\ frame' = binomialReturn(frame)
    /\ UNCHANGED <<fn, args, rp, heap>>

CallMultinomial(l) ==
    /\ frame.at = "idle"
    /\ fn' = "multinomial"
    /\ args' = l
    /\ LET s == multinomialEntry(<<l>>, nlist)
       IN  heap' = s.heap /\ frame' = s.frame
    /\ UNCHANGED rp

MultinomialIter ==
    /\ fn = "multinomial"
    /\ frame.at = "loop"
    /\ frame.i <= frame.nsum
    /\ LET s == multinomialStep([heap |-> heap, frame |-> frame], rp)
       IN  heap' = s.heap /\ frame' = s.frame
    /\ UNCHANGED <<fn, args, rp>>

MultinomialExit ==
    /\ fn = "multinomial"
    /\ frame.at = "loop"
    /\ frame.i > frame.nsum
    /\ LET s == multinomialReturn([heap |-> heap, frame |-> frame])
       IN  heap' = s.heap /\ frame' = s.frame
    /\ UNCHANGED <<fn, args, rp>>

CallProd(m, n) ==
    /\ frame.at = "idle"
    /\ fn' = "prod"
    /\ args' = <<m, n>>
    /\ frame' = Return(prod(m, n))
    /\ UNCHANGED <<rp, heap>>

CallStirling2(n, m) ==
    /\ frame.at = "idle"
    /\ fn' = "stirling2"
    /\ args' = <<n, m>>
    /\ frame' = Return(stirling2(n, m, rp))
    /\ UNCHANGED <<rp, heap>>

CallStirling1(n, m) ==
    /\ frame.at = "idle"
    /\ fn' = "stirling1"
    /\ args' = <<n, m>>
    /\ frame' = Return(stirling1(n, m, rp))
    /\ UNCHANGED <<rp, heap>>

CallLah(n, k) ==
    /\ frame.at = "idle"
    /\ fn' = "lah"
    /\ args' = <<n, k>>
    /\ frame' = Return(lah(n, k, rp))
    /\ UNCHANGED <<rp, heap>>

\* the caller takes the result (or the exception) and is free to call again
Resume ==
    /\ frame.at \in {"return", "raise"}
    /\ fn' = "none"
    /\ args' = <<>>
    /\ heap' = <<>>
    /\ frame' = Idle
    /\ UNCHANGED rp

Next ==
    \/ \E a \in 0..MaxGcd, b \in 0..MaxGcd : CallGcd(a, b)
    \/ GcdIter
    \/ GcdExit
    \/ \E n \in Args(MaxN), k \in Args(MaxN) : CallBinomial(n, k)
    \/ BinomialIter
    \/ BinomialExit
    \/ \E l \in Lists : CallMultinomial(l)
    \/ MultinomialIter
    \/ MultinomialExit
    \/ \E m \in Args(MaxLah), n \in Args(MaxLah) : CallProd(m, n)
    \/ \E n \in Args(MaxStirling), m \in Args(MaxStirling) : CallStirling2(n, m)
    \/ \E n \in Args(MaxStirling), m \in Args(MaxStirling) : CallStirling1(n, m)
    \/ \E n \in Args(MaxLah), k \in Args(MaxLah) : CallLah(n, k)
    \/ Resume

Spec == Init /\ [][Next]_vars

\* gcd alone.  A call that has started keeps running: nothing in the program
\* suspends an iteration of the loop or the return that follows it.
GcdNext ==
    \/ \E a \in 0..MaxGcd, b \in 0..MaxGcd : CallGcd(a, b)
    \/ GcdIter
    \/ GcdExit
    \/ Resume

GcdSpec == Init /\ [][GcdNext]_vars /\ WF_vars(GcdIter) /\ WF_vars(GcdExit)

----------------------------------------------------------------------------
(* Reference values and helper predicates of the properties *)

Done == frame.at \in {"return", "raise"}

\* the binomial coefficient by Pascal's rule
RECURSIVE RefBinomial(_, _)
RefBinomial(n, k) ==
    IF (k < 0) \/ (n < 0) \/ (n < k) THEN 0
    ELSE IF (k = 0) \/ (k = n) THEN 1
    ELSE RefBinomial(n - 1, k - 1) + RefBinomial(n - 1, k)

RECURSIVE RefFactorial(_)
RefFactorial(n) == IF n <= 0 THEN 1 ELSE n * RefFactorial(n - 1)

RECURSIVE RefFactorials(_)
RefFactorials(l) ==
    IF Len(l) = 0 THEN 1 ELSE RefFactorial(Head(l)) * RefFactorials(Tail(l))

\* (n1 + ... + nk)! / (n1! * ... * nk!)
RefMultinomial(l) == RefFactorial(SumNonNeg(l)) \div RefFactorials(l)

\* the signed Stirling number of the first kind by its recurrence
RECURSIVE RefStirling1(_, _)
RefStirling1(n, m) ==
    IF (n = 0) /\ (m = 0) THEN 1
    ELSE IF (n <= 0) \/ (m <= 0) THEN 0
    ELSE RefStirling1(n - 1, m - 1) - ((n - 1) * RefStirling1(n - 1, m))

NonNegative(l) == \A j \in 1..Len(l) : l[j] >= 0

Coprime(a, b) == \A d \in 2..b : ~((a % d = 0) /\ (b % d = 0))

IsGcd(g, a, b) ==
    /\ g >= 1
    /\ a % g = 0
    /\ b % g = 0
    /\ \A d \in 1..b : ((a % d = 0) /\ (b % d = 0)) => (g % d = 0)

\* a reduction period larger than every loop index: no reduction ever runs
NoReduction == (MaxN + MaxSum) + RP

InLoop == (fn \in {"binomial", "multinomial"}) /\ (frame.at = "loop")

\* the iteration that just ran (index i - 1) was a reduction checkpoint
JustReduced ==
    /\ InLoop
    /\ (frame.i - 1) >= (IF fn = "binomial" THEN 2 ELSE frame.nmax + 1)
    /\ (frame.i - 1) % rp = 0

\* the loop has run its last iteration; the return is next
AtLoopExit ==
    /\ InLoop
    /\ frame.i > (IF fn = "binomial" THEN frame.k ELSE frame.nsum)

----------------------------------------------------------------------------
(* The properties *)

\* C1: for all integers n, k, binomial(n, k) returns (never raises) the reference
\* binomial coefficient: 0 when k < 0, n < 0 or n < k, 1 when k = 0 or k = n, and
\* binomial(n-1, k-1) + binomial(n-1, k) when n > 0 and 0 < k < n.
C1_BinomialIsReference ==
    (fn = "binomial" /\ Done) =>
        LET n == args[1]
            k == args[2]
        IN  /\ frame = Return(RefBinomial(n, k))
            /\ ((n > 0) /\ (0 < k) /\ (k < n)) =>
                   frame.ret = binomial(n - 1, k - 1, rp) + binomial(n - 1, k, rp)

C1_Witness ==
    /\ fn = "binomial"
    /\ frame.at = "return"
    /\ rp = 2
    /\ args[2] >= 3
    /\ args[1] - args[2] >= 3

\* C2: for every non-empty list of non-negative integers with a positive sum,
\* multinomial returns (n1 + ... + nk)! / (n1! * ... * nk!).
C2_MultinomialIsReference ==
    (fn = "multinomial" /\ Done /\ Len(args) > 0 /\ NonNegative(args) /\ sum(args) > 0) =>
        frame = Return(RefMultinomial(args))

\* C3: for every n >= 0, multinomial([n]) returns 1.
C3_SinglePartIsOne ==
    (fn = "multinomial" /\ Done /\ Len(args) = 1 /\ args[1] >= 0) => frame = Return(1)

\* C4 as stated: for all a >= 0 and b >= 0, a = b = 0 included,
\* multinomial([a, b]) equals binomial(a + b, a).
C4_PairIsBinomial_Original ==
    (fn = "multinomial" /\ Done /\ Len(args) = 2 /\ NonNegative(args)) =>
        frame = Return(binomial(args[1] + args[2], args[1], rp))

\* C4 (amended): for all a >= 0 and b >= 0 with a + b >= 1,
\* multinomial([a, b]) equals binomial(a + b, a).
C4_PairIsBinomial ==
    (fn = "multinomial" /\ Done /\ Len(args) = 2 /\ NonNegative(args)
        /\ args[1] + args[2] >= 1) =>
        frame = Return(binomial(args[1] + args[2], args[1], rp))

C4_Witness ==
    /\ fn = "multinomial"
    /\ frame.at = "return"
    /\ Len(args) = 2
    /\ args[1] >= 2
    /\ args[2] >= 2

\* C5: the outcome of binomial(n, k) and of multinomial(list) under the reduction
\* period in force is the outcome under every other reduction period, the one
\* that never reduces included.
C5_ReductionPeriodInvariance ==
    Done =>
        \A r \in RPValues \cup {NoReduction} :
            /\ (fn = "binomial") =>
                   frame = binomialRun(binomialEntry(args[1], args[2]), r)
            /\ (fn = "multinomial") =>
                   frame = multinomialRun(multinomialEntry(<<args>>, nlist), r).frame

C5_Witness ==
    /\ fn = "multinomial"
    /\ frame.at = "return"
    /\ rp = 1
    /\ Len(args) >= 3
    /\ frame.ret >= 30

\* C6: during and after a call of multinomial, on every exit path, the caller's
\* list holds the elements it held at the call, in the same order.
C6_ArgumentNotMutated ==
    (fn = "multinomial") => heap[nlist] = args

C6_Witness ==
    /\ fn = "multinomial"
    /\ frame.at = "return"
    /\ Len(args) >= 3
    /\ frame.ret > 1
    /\ heap[Len(heap)] = <<>>

\* C7: for all 0 <= m <= n, stirling1(n, m) equals s(n, m), where s(0, 0) = 1,
\* s(n, 0) = 0 for n > 0 and s(n, m) = s(n-1, m-1) - (n-1) * s(n-1, m).
C7_Stirling1IsReference ==
    (fn = "stirling1" /\ Done /\ 0 <= args[2] /\ args[2] <= args[1]) =>
        frame = Return(RefStirling1(args[1], args[2]))

\* C8 as stated: for 1 <= k <= n, n = k included, lah(n, k) equals
\* prod(k+1, n) * binomial(n-1, k-1); otherwise lah returns 0.
C8_LahIsProdTimesBinomial_Original ==
    (fn = "lah" /\ Done) =>
        LET n == args[1]
            k == args[2]
        IN  frame = Return(IF (1 <= k) /\ (k <= n)
                           THEN prod(k + 1, n) * binomial(n - 1, k - 1, rp)
                           ELSE 0)

\* C8 (amended): for 1 <= k < n, lah(n, k) equals prod(k+1, n) * binomial(n-1, k-1);
\* for n = k >= 1 it equals binomial(n-1, k-1), which is 1; otherwise lah returns 0.
C8_LahIsProdTimesBinomial ==
    (fn = "lah" /\ Done) =>
        LET n == args[1]
            k == args[2]
        IN  /\ frame = Return(IF (1 <= k) /\ (k < n)
                              THEN prod(k + 1, n) * binomial(n - 1, k - 1, rp)
                              ELSE IF (1 <= k) /\ (k = n)
                              THEN binomial(n - 1, k - 1, rp)
                              ELSE 0)
            /\ ((1 <= k) /\ (k = n)) => frame.ret = 1

C8_Witness ==
    /\ fn = "lah"
    /\ frame.at = "return"
    /\ args[2] >= 2
    /\ args[1] >= args[2] + 2

\* C9: in every state of the loops of binomial and multinomial den >= 1 (and gcd
\* never raises for a zero divisor), after an iteration at a reduction checkpoint
\* num and den are coprime, and at loop exit den divides num.
C9_RationalAccumulator ==
    (fn \in {"binomial", "multinomial"}) =>
        /\ (frame.at = "raise") => (frame.exc # "ZeroDivisionError")
        /\ InLoop =>
               /\ frame.den >= 1
               /\ JustReduced => Coprime(frame.num, frame.den)
               /\ AtLoopExit => (frame.num % frame.den = 0)

C9_Witness ==
    /\ fn = "multinomial"
    /\ JustReduced
    /\ frame.den > 1
    /\ frame.i <= frame.nsum

\* C10: for a >= 0 and b >= 1 the remainder of gcd(a, b) strictly decreases
\* while the loop runs, the loop ends, and the value returned divides a and b
\* and is divided by every common divisor of a and b.
C10_GcdTerminatesWithGcd ==
    /\ []((fn = "gcd" /\ Done /\ args[2] >= 1) =>
             (frame.at = "return" /\ IsGcd(frame.ret, args[1], args[2])))
    /\ [][(fn = "gcd" /\ frame.at = "loop" /\ frame'.at = "loop") =>
             (0 <= frame'.r /\ frame'.r < frame.r)]_vars
    /\ ((fn = "gcd" /\ frame.at = "loop") ~> (fn = "gcd" /\ frame.at = "return"))

C10_Witness ==
    /\ fn = "gcd"
    /\ frame.at = "return"
    /\ frame.ret > 1
    /\ frame.ret < args[1]
    /\ frame.ret < args[2]

=============================================================================
